---- MODULE Spec2Model ----
(***************************************************************************)
(* Unit-mix feasibility and financial-optimisation kernel of the           *)
(* dashboard app/streamlit_app.py: the rent-band capacity lookup           *)
(* (cap_by_rent over CAP_TABLE), the financial model (unit_mix_metrics),   *)
(* the brute-force optimizer (optimize_mix) and the rerun of the           *)
(* "Unit-Mix & Valuation" tab that calls them.                             *)
(*                                                                         *)
(* Arithmetic.  Rents are whole dollars.  The vacancy rate is carried in   *)
(* whole percents (vac = 10 stands for 0.10), so the factor (1 - vac) of   *)
(* the source is (100 - vac) hundredths, and every quantity the source     *)
(* derives from it (leased_st, leased_1b, revenue, noi) is carried in      *)
(* hundredths: leased_st = 4950 stands for 49.5 units, noi = 50260000 for  *)
(* 502600 dollars.  used_sf, cap_st, cap_1b, var_cost and opex do not      *)
(* depend on the vacancy rate and are carried in their own units.          *)
(***************************************************************************)
EXTENDS Integers, Sequences, FiniteSets, TLC

VARIABLES
    rent, is_studio, cap,        \* one call of cap_by_rent: arguments, result
    r_studio, r_1br, vac_rate,   \* market inputs read from the unit-rent file
    w_st, w_1br,                 \* the two number_input widgets
    total_sf,                    \* module global TOTAL_SF as the run sees it
    n_st, n_1br,                 \* the mix the rerun evaluates and displays
    run_opt,                     \* whether this rerun was the button press
    best,                        \* optimize_mix's third result (_best)
    warning, error,              \* st.warning / st.error raised by the rerun
    m                            \* unit_mix_metrics of the displayed mix

vars == <<rent, is_studio, cap, r_studio, r_1br, vac_rate, w_st, w_1br,
          total_sf, n_st, n_1br, run_opt, best, warning, error, m>>

capVars == <<rent, is_studio, cap>>
uiVars  == <<r_studio, r_1br, vac_rate, w_st, w_1br, total_sf, n_st, n_1br,
             run_opt, best, warning, error, m>>

(***************************************************************************)
(* Skyline memo core assumptions (module globals).                         *)
(***************************************************************************)
TOTAL_UNITS == 85
TOTAL_SF == 80000
\* SF_STUDIO and SF_1BR of the source: SF_ is the strong-fairness token of TLA+
SQFT_STUDIO == 800
SQFT_1BR == 1200
FIXED_COST_YR == 320000
VAR_COST_STUDIO_MO == 720
VAR_COST_1BR_MO == 1000

(***************************************************************************)
(* Market capacity by rent band.  inf marks a lower bound of -np.inf, for  *)
(* which lo is not read.                                                   *)
(***************************************************************************)
Band(inf, lo, hi, cap_s, cap_1b) ==
    [inf |-> inf, lo |-> lo, hi |-> hi, cap_s |-> cap_s, cap_1b |-> cap_1b]

CAP_TABLE ==
    << Band(TRUE,  0,    1499, 60, 75),
       Band(FALSE, 1500, 1800, 55, 70),
       Band(FALSE, 1800, 2100, 48, 65),
       Band(FALSE, 2200, 2500, 40, 57),
       Band(FALSE, 2500, 2800, 30, 48),
       Band(FALSE, 2800, 3100, 18, 35) >>

\* lo < rent <= hi
InBand(b, x) == (b.inf \/ b.lo < x) /\ x <= b.hi

BandCap(b, studio) == IF studio THEN b.cap_s ELSE b.cap_1b

\* A fallback that clamps to the first band instead of the last.
cap_fallback_first(studio) == BandCap(CAP_TABLE[1], studio)

\* return CAP_TABLE[-1][1 if is_studio else 2]
cap_fallback(studio) == BandCap(CAP_TABLE[Len(CAP_TABLE)], studio)

RECURSIVE cap_scan(_, _, _)
cap_scan(i, x, studio) ==
    IF i > Len(CAP_TABLE) THEN cap_fallback(studio)
    ELSE IF InBand(CAP_TABLE[i], x) THEN BandCap(CAP_TABLE[i], studio)
    ELSE cap_scan(i + 1, x, studio)

cap_by_rent(x, studio) == cap_scan(1, x, studio)

(***************************************************************************)
(* cap_by_rent called once on arguments drawn from a dense rent range.     *)
(***************************************************************************)
MaxRent == 3300
BelowZero == 20
RentRange == (0 - BelowZero) .. MaxRent

\* Values the other group of variables holds while one group is exercised.
CapIdle == rent = 0 /\ is_studio = TRUE /\ cap = <<>>

UiIdle ==
    /\ r_studio = 0 /\ r_1br = 0 /\ vac_rate = 0
    /\ w_st = 0 /\ w_1br = 0 /\ total_sf = TOTAL_SF
    /\ n_st = 0 /\ n_1br = 0 /\ run_opt = FALSE
    /\ best = <<>> /\ warning = FALSE /\ error = FALSE /\ m = <<>>

InitCap ==
    /\ rent \in RentRange
    /\ is_studio \in BOOLEAN
    /\ cap = <<>>
    /\ UiIdle

CapByRent ==
    /\ cap = <<>>
    /\ cap' = <<cap_by_rent(rent, is_studio)>>
    /\ UNCHANGED <<rent, is_studio>>
    /\ UNCHANGED uiVars

NextCap == CapByRent

SpecCap == InitCap /\ [][NextCap]_vars

(***************************************************************************)
(* unit_mix_metrics: revenue, opex, NOI with caps, vacancy, fixed and      *)
(* variable costs.  vac is in percents; leased_*, revenue and noi are in   *)
(* hundredths.                                                             *)
(***************************************************************************)
Min(a, b) == IF a <= b THEN a ELSE b

\* used_sf = n_st*SF_STUDIO + n_1br*SF_1BR
used_floor(ns, n1) == ns * SQFT_STUDIO + n1 * SQFT_1BR

\* Leasing that forgets the vacancy discount.
leased_no_vacancy(n, c, vac) == Min(n, c) * 100

\* Leasing that forgets the market capacity.
leased_no_cap(n, c, vac) == n * (100 - vac)

\* min(n, cap) * (1 - vac), in hundredths of a unit
leased(n, c, vac) == Min(n, c) * (100 - vac)

\* Variable cost left monthly: the factor 12 forgotten.
variable_cost_monthly(ns, n1) == ns * VAR_COST_STUDIO_MO + n1 * VAR_COST_1BR_MO

\* var_cost = 12*(n_st*VAR_COST_STUDIO_MO + n_1br*VAR_COST_1BR_MO)
variable_cost(ns, n1) == 12 * (ns * VAR_COST_STUDIO_MO + n1 * VAR_COST_1BR_MO)

unit_mix_metrics(ns, n1, rs, r1, vac) ==
    LET used_sf   == used_floor(ns, n1)
        cap_st    == cap_by_rent(rs, TRUE)
        cap_1b    == cap_by_rent(r1, FALSE)
        leased_st == leased(ns, cap_st, vac)
        leased_1b == leased(n1, cap_1b, vac)
        rev_year  == 12 * (leased_st * rs + leased_1b * r1)
        var_cost  == variable_cost(ns, n1)
        opex_year == FIXED_COST_YR + var_cost
        noi_year  == rev_year - 100 * opex_year
    IN  [used_sf |-> used_sf, cap_st |-> cap_st, cap_1b |-> cap_1b,
         leased_st |-> leased_st, leased_1b |-> leased_1b,
         revenue |-> rev_year, var_cost |-> var_cost, opex |-> opex_year,
         noi |-> noi_year]

(***************************************************************************)
(* optimize_mix: brute-force search, max NOI under unit and floor          *)
(* constraints.  best is <<>> for None and <<m>> for a summary m.          *)
(***************************************************************************)
EmptyDict == [k \in {} |-> 0]

\* A floor-area test that also skips the allocation exactly at the limit.
over_floor_or_at(ns, n1) == used_floor(ns, n1) >= total_sf

\* A floor-area test with the comparison turned round.
over_floor_flipped(ns, n1) == used_floor(ns, n1) < total_sf

\* if n_st*SF_STUDIO + n_1br*SF_1BR > TOTAL_SF: continue
over_floor(ns, n1) == used_floor(ns, n1) > total_sf

\* A replacement test that also replaces the incumbent on an equal NOI.
improves_or_ties(mm, b) == (b = <<>>) \/ (mm.noi >= b[1].noi)

\* if (best is None) or (m["noi"] > best["noi"])
improves(mm, b) == (b = <<>>) \/ (mm.noi > b[1].noi)

\* One pass of the loop body for n_st = i; acc holds best and best_tuple.
opt_step(acc, i, rs, r1, vac) ==
    LET o == TOTAL_UNITS - i IN
    IF over_floor(i, o) THEN acc
    ELSE LET mm == unit_mix_metrics(i, o, rs, r1, vac) IN
         IF improves(mm, acc.best)
         THEN [best |-> <<mm>>, best_tuple |-> <<i, o>>]
         ELSE acc

\* for n_st in range(lo, hi + 1): the loop body applied to lo, lo + 1, ..., hi
\* in this order, each pass starting from the best and best_tuple the passes
\* before it left.  The range is halved, and the first half bound to its
\* value before the second starts, only to keep the evaluation shallow.
RECURSIVE opt_scan(_, _, _, _, _, _)
opt_scan(lo, hi, acc, rs, r1, vac) ==
    IF lo > hi THEN acc
    ELSE IF lo = hi THEN opt_step(acc, lo, rs, r1, vac)
    ELSE LET mid == (lo + hi) \div 2 IN
         CHOOSE out \in { opt_scan(mid + 1, hi, left, rs, r1, vac) :
                            left \in {opt_scan(lo, mid, acc, rs, r1, vac)} } : TRUE

\* return best_tuple[0], best_tuple[1], best or {}
optimize_mix(rs, r1, vac) ==
    LET acc == opt_scan(0, TOTAL_UNITS, [best |-> <<>>, best_tuple |-> <<0, 0>>],
                        rs, r1, vac)
    IN  <<acc.best_tuple[1], acc.best_tuple[2],
          IF acc.best = <<>> THEN EmptyDict ELSE acc.best[1]>>

(***************************************************************************)
(* The "Unit-Mix & Valuation" tab.  Every interaction reruns the script:   *)
(* it reads the two widgets, lets the optimizer overwrite the mix when the *)
(* button was pressed, raises the warning and the error, and evaluates the *)
(* mix.  best is <<>> on a rerun that did not call optimize_mix.           *)
(***************************************************************************)
StudioRents == {0 - 100, 1400, 1500, 1700, 3200}
OneBedRents == {0 - 100, 1800, 2000, 2150, 3200}
VacRates == {0, 10, 30, 86, 100}
StudioCounts == {0, 1, 55, 61, 85}
OneBedCounts == {0, 30, 85}
FloorAreas == {TOTAL_SF, 60000}

Rerun(ws, w1, pressed) ==
    \E r \in {IF pressed THEN optimize_mix(r_studio, r_1br, vac_rate)
                          ELSE <<ws, w1, EmptyDict>>} :
    \E mm \in {unit_mix_metrics(r[1], r[2], r_studio, r_1br, vac_rate)} :
        /\ w_st' = ws
        /\ w_1br' = w1
        /\ run_opt' = pressed
        /\ best' = IF pressed THEN <<r[3]>> ELSE <<>>
        /\ n_st' = r[1]
        /\ n_1br' = r[2]
        /\ warning' = (r[1] + r[2] # TOTAL_UNITS)
        /\ error' = (used_floor(r[1], r[2]) > total_sf)
        /\ m' = mm
        /\ UNCHANGED <<r_studio, r_1br, vac_rate, total_sf>>
        /\ UNCHANGED capVars

\* n_st = st.number_input("Studios", min_value=0, max_value=TOTAL_UNITS, value=55)
SetStudios == \E v \in StudioCounts : v # w_st /\ Rerun(v, w_1br, FALSE)

\* n_1br = st.number_input("1-Bedrooms", min_value=0, max_value=TOTAL_UNITS, value=30)
SetOneBedrooms == \E v \in OneBedCounts : v # w_1br /\ Rerun(w_st, v, FALSE)

\* run_opt = st.button("Recommend Best Mix (Max NOI)")
RecommendBestMix == Rerun(w_st, w_1br, TRUE)

\* The first run of the script: widget defaults, button not pressed.
FirstRun ==
    /\ r_studio \in StudioRents
    /\ r_1br \in OneBedRents
    /\ vac_rate \in VacRates
    /\ w_st = 55 /\ w_1br = 30
    /\ run_opt = FALSE
    /\ best = <<>>
    /\ n_st = 55 /\ n_1br = 30
    /\ warning = (55 + 30 # TOTAL_UNITS)
    /\ error = (used_floor(55, 30) > total_sf)
    /\ m = unit_mix_metrics(55, 30, r_studio, r_1br, vac_rate)
    /\ CapIdle

Init == total_sf = TOTAL_SF /\ FirstRun

Next == SetStudios \/ SetOneBedrooms \/ RecommendBestMix

Spec == Init /\ [][Next]_vars

\* The same tab with the floor-area limit as a configurable project constraint.
InitCfg == total_sf \in FloorAreas /\ FirstRun

SpecCfg == InitCfg /\ [][Next]_vars

(***************************************************************************)
(* Properties of cap_by_rent, checked under SpecCap.                       *)
(***************************************************************************)
TopHi == CAP_TABLE[Len(CAP_TABLE)].hi

Matching(x) == {i \in DOMAIN CAP_TABLE : InBand(CAP_TABLE[i], x)}

\* C1: band boundaries: cap_by_rent(1499, studio) = 60, cap_by_rent(1500,
\* studio) = 55, cap_by_rent(1800, studio) = 55, cap_by_rent(1801, studio) = 48.
C1_BandBoundary ==
    (cap # <<>> /\ is_studio) =>
        /\ (rent = 1499 => cap[1] = 60)
        /\ (rent = 1500 => cap[1] = 55)
        /\ (rent = 1800 => cap[1] = 55)
        /\ (rent = 1801 => cap[1] = 48)

\* C2: the bands are contiguous and non-overlapping: every rent at or below
\* the top band's upper bound lies in exactly one band, whose capacity
\* cap_by_rent returns; the fallback is reached only above that bound.
C2_ExactlyOneBand ==
    (cap # <<>> /\ rent <= TopHi) =>
        /\ Cardinality(Matching(rent)) = 1
        /\ \A i \in Matching(rent) : cap[1] = BandCap(CAP_TABLE[i], is_studio)

\* C6: band clamp: for a rent strictly above the top band's upper bound,
\* cap_by_rent returns what it returns at that bound, for both unit types.
C6_BandClamp ==
    (cap # <<>> /\ rent > TopHi) => cap[1] = cap_by_rent(TopHi, is_studio)

C6_Witness == cap = <<35>> /\ rent = TopHi + 150 /\ ~is_studio

(***************************************************************************)
(* Properties of unit_mix_metrics and optimize_mix, checked on the tab.    *)
(***************************************************************************)
FeasibleStudios ==
    {s \in 0 .. TOTAL_UNITS : used_floor(s, TOTAL_UNITS - s) <= TOTAL_SF}

\* NOI of every allocation (s, TOTAL_UNITS - s) under the current market.
NoiOf ==
    [s \in 0 .. TOTAL_UNITS |->
        unit_mix_metrics(s, TOTAL_UNITS - s, r_studio, r_1br, vac_rate).noi]

\* C3: optimizer optimality: the NOI of the summary optimize_mix returns is at
\* least the NOI of every allocation (s, 85 - s) whose floor area is at most
\* 80000, the allocation exactly at the limit included.
C3_OptimizerOptimality ==
    run_opt =>
        \A s \in 0 .. TOTAL_UNITS :
            (s * 800 + (85 - s) * 1200 <= 80000) =>
                best[1].noi >=
                    unit_mix_metrics(s, 85 - s, r_studio, r_1br, vac_rate).noi

\* The optimizer returned the allocation exactly at the floor-area limit.
C3_Witness ==
    /\ run_opt /\ n_st = 55 /\ n_1br = 30
    /\ best[1].used_sf = TOTAL_SF
    /\ \A s \in FeasibleStudios \ {55} : NoiOf[s] < best[1].noi

NoFeasible == \A s \in 0 .. TOTAL_UNITS : over_floor(s, TOTAL_UNITS - s)

C5_ConcreteScenario ==
    (n_st = 55 /\ n_1br = 30 /\ r_studio = 1700 /\ r_1br = 2000 /\ vac_rate = 10)
    => m = [used_sf |-> 80000, cap_st |-> 55, cap_1b |-> 65,
            leased_st |-> 4950, leased_1b |-> 2700,
            revenue |-> 165780000, var_cost |-> 835200, opex |-> 1155200,
            noi |-> 50260000]

C5_Witness ==
    /\ n_st = 55 /\ n_1br = 30 /\ r_studio = 1700 /\ r_1br = 2000 /\ vac_rate = 10
    /\ ~run_opt
    /\ m.noi = 50260000

\* Leased studios of the displayed mix had the vacancy rate been v.
LeasedStudiosAt(v) ==
    unit_mix_metrics(n_st, n_1br, r_studio, r_1br, v).leased_st

\* C7 as stated: for every studio count, leased studios strictly decreases as
\* the vacancy rate rises over [0,1), and is zero at vacancy rate 1.
C7_VacancyStrictlyDecreasing ==
    /\ \A v \in 0 .. 99 : (vac_rate < v) => LeasedStudiosAt(v) < m.leased_st
    /\ (vac_rate = 100) => m.leased_st = 0

\* C7 amended: for a studio count of at least 1, leased studios strictly
\* decreases as the vacancy rate rises over [0,1); for a studio count of 0 it
\* is zero at every vacancy rate; it is zero at vacancy rate 1.
C7_VacancyDecreasingWhenBuilt ==
    /\ (n_st >= 1) =>
           \A v \in 0 .. 99 : (vac_rate < v) => LeasedStudiosAt(v) < m.leased_st
    /\ (n_st = 0) => \A v \in 0 .. 100 : LeasedStudiosAt(v) = 0 /\ m.leased_st = 0
    /\ (vac_rate = 100) => m.leased_st = 0

C7_Witness ==
    /\ n_st = 55 /\ vac_rate = 30 /\ r_studio = 1700
    /\ m.leased_st = 55 * 70
    /\ LeasedStudiosAt(31) = 55 * 69

\* C8: a negative count or rent is rejected: no computed summary is returned.
C8_RejectsNegativeInput ==
    (n_st < 0 \/ n_1br < 0 \/ r_studio < 0 \/ r_1br < 0) => "noi" \notin DOMAIN m

MaxRaise == 10

\* C9: capacity binding: with the studio count above the studio capacity,
\* leased studios is the capacity discounted by vacancy, and raising the
\* studio count further leaves leased studios and revenue unchanged while the
\* variable cost grows.
C9_CapacityBinding ==
    (n_st > m.cap_st) =>
        /\ m.leased_st = m.cap_st * (100 - vac_rate)
        /\ \A k \in (n_st + 1) .. (n_st + MaxRaise) :
             LET m2 == unit_mix_metrics(k, n_1br, r_studio, r_1br, vac_rate)
             IN  /\ m2.leased_st = m.leased_st
                 /\ m2.revenue = m.revenue
                 /\ m2.var_cost > m.var_cost

C9_Witness ==
    /\ n_st = 61 /\ m.cap_st = 60 /\ vac_rate = 10
    /\ m.leased_st = 5400

\* C10: tie-breaking: among the feasible allocations that share the greatest
\* NOI, optimize_mix returns the one with the smallest studio count.
C10_TieBreaking ==
    run_opt =>
        LET noi  == NoiOf
            tops == {s \in FeasibleStudios :
                        \A t \in FeasibleStudios : noi[s] >= noi[t]}
        IN  /\ n_st \in tops
            /\ \A s \in tops : n_st <= s

\* The optimizer ran on a market where several allocations share the top NOI.
C10_Witness ==
    /\ run_opt
    /\ LET noi == NoiOf
       IN  \E s \in FeasibleStudios :
              /\ s > n_st
              /\ noi[s] = best[1].noi
              /\ \A t \in FeasibleStudios : noi[t] <= noi[s]

\* C11: with the built-in constants optimize_mix returns a non-empty summary
\* and an allocation with n_st + n_1br = 85, 55 <= n_st <= 85 and floor area
\* at most 80000; so the mix shown after "Recommend Best Mix" raises neither
\* the unit-total warning nor the floor-area error, and the fallback
\* (0, 0, {}) is never returned.
C11_RecommendedMixFeasible ==
    run_opt =>
        /\ DOMAIN best[1] # {}
        /\ best[1] = m
        /\ n_st + n_1br = 85
        /\ 55 <= n_st /\ n_st <= 85
        /\ n_st * 800 + n_1br * 1200 <= 80000
        /\ ~warning
        /\ ~error
        /\ <<n_st, n_1br, best[1]>> # <<0, 0, EmptyDict>>

\* The optimizer recommended 60 studios and 25 one-bedrooms: no warning, no error.
C11_Witness ==
    /\ run_opt /\ ~warning /\ ~error
    /\ n_st = 60 /\ n_1br = 25
    /\ m.used_sf = 78000

====
